---- MODULE Spec2Model ----
(***************************************************************************)
(* Patient record store (hms/app/db_services.py) and the average-age       *)
(* aggregation built on it.                                                *)
(*                                                                         *)
(* The table `patients` is a set of rows keyed by an AUTOINCREMENT rowid;  *)
(* every CRUD function runs one SQL statement in its own connection and    *)
(* commits, so each call is one atomic step.  Text values are what SQLite  *)
(* stores in a TEXT column; an age is kept as its sequence of characters   *)
(* so that Python's int() can be applied to it character by character.     *)
(***************************************************************************)
EXTENDS Integers, Sequences, FiniteSets

(***************************************************************************)
(* Bounds of the model.                                                    *)
(***************************************************************************)
\* number of rows the store may assign an id to in one run
MaxId == 3

\* number of rows in the store an aggregation is run on
MaxPatients == 4

\* largest batch_size passed beside the default one
MaxBatch == 3

(***************************************************************************)
(* Values.                                                                 *)
(***************************************************************************)
\* Python's None as the id of a Patient built without one (model.py:2).
\* The store never assigns this value: rowids start at 1.
NoId == 0

\* Python's None as a return value (create failed / no such row / no valid age)
None == [kind |-> "None"]

\* no call has returned yet
NoCall == [kind |-> "nocall"]

\* age texts handed to Create and Update: the store never looks inside them
Age45 == <<"4", "5">>
AgeInvalid == <<"i", "n", "v", "a", "l", "i", "d">>

\* the name/age/disease triples callers pass: a base triple and, for each
\* field, one that differs from it in that field alone
FieldArgs ==
    { <<"John Doe", Age45, "Hypertension">>,
      <<"Jane Smith", Age45, "Hypertension">>,
      <<"John Doe", AgeInvalid, "Hypertension">>,
      <<"John Doe", Age45, "Diabetes">> }

\* age texts of the rows an aggregation is run on: a number, zero, a
\* negative number and a text that is no number
AgeZero == <<"0">>
AgeMinus45 == <<"-", "4", "5">>
AggAges == { Age45, AgeZero, AgeMinus45, AgeInvalid }

\* def calculate_average_age(batch_size=5)
batch_size_default == 5

\* the batch sizes callers pass: the default, small ones, zero and a negative
BatchSizes == (-1 .. MaxBatch) \cup {batch_size_default}

\* ids a caller may pass: every id the store can assign, and one it never does
IdArgs == 1 .. (MaxId + 1)

\* class Patient: a plain record of four fields
Patient(id, name, age, disease) ==
    [id |-> id, name |-> name, age |-> age, disease |-> disease]

\* the Patient objects callers build: with or without an id of their own
PatientArgs ==
    { Patient(i, f[1], f[2], f[3]) : i \in IdArgs \cup {NoId}, f \in FieldArgs }

(***************************************************************************)
(* State.                                                                  *)
(***************************************************************************)
VARIABLES
    patients,         \* table patients: the set of its rows
    sqlite_sequence,  \* AUTOINCREMENT: the largest rowid ever assigned
    ret,              \* the value the last call returned to its caller
    created,          \* history: the Creates made so far, while nothing else wrote
    only_creates,     \* history: no Update and no Delete has been called yet
    deleted,          \* history: ids Delete has returned for, no Create since
    last_call,        \* history: the last call made, with the id it was about
    ever_created,     \* history: every id a Create has returned
    ever_deleted,     \* history: every id whose row a Delete has removed
    pc,               \* calculate_average_age: where its caller thread stands
    batch_size,       \* calculate_average_age: its argument
    local_patients,   \* calculate_average_age: the list read_all_patients gave it
    futures,          \* calculate_average_age: the tasks submitted to the pool
    range_i,          \* calculate_average_age: the loop index i of range(0, n, b)
    joined,           \* calculate_average_age: how many futures it has consumed
    total_age,        \* calculate_average_age: sum of the partial sums so far
    total_count,      \* calculate_average_age: sum of the partial counts so far
    average_age,      \* calculate_average_age: the value it returned
    average_ages,     \* calculate_average_ages: the value it returned
    conn,             \* per caller: the connection of the store call it is in
    reserved,         \* the caller whose transaction holds the write lock
    http,             \* per client: where the handler of its request stands
    response,         \* the last response a /patients handler sent
    scraped_file,     \* ./patient_app/scraped_diseases.json
    scraper,          \* scrape(): where it stands, what it writes
    lookup,           \* get_scraped_data: where it stands
    scraped_response, \* the last response get_scraped_data sent
    previous_snapshot, \* history: the file as the last scrape found it
    avg_request,      \* get_average_age: where it stands, what it has computed
    avg_response      \* the last response get_average_age sent

storeVars == <<patients, sqlite_sequence, ret>>
histVars == <<created, only_creates, deleted, last_call, ever_created, ever_deleted>>
aggVars == <<pc, batch_size, local_patients, futures, range_i, joined, total_age,
             total_count, average_age>>
passVars == <<average_ages>>
connVars == <<conn, reserved>>
httpVars == <<http, response>>
cacheVars == <<scraped_file, scraper, lookup, scraped_response, previous_snapshot>>
avgVars == <<avg_request, avg_response>>
\* what the store calls and the pooled aggregation leave alone
otherVars == <<passVars, connVars, httpVars, cacheVars, avgVars>>
vars == <<patients, sqlite_sequence, ret, created, only_creates, deleted, last_call,
          ever_created, ever_deleted,
          pc, batch_size, local_patients, futures, range_i, joined, total_age,
          total_count, average_age, average_ages, conn, reserved, http, response,
          scraped_file, scraper, lookup, scraped_response, previous_snapshot,
          avg_request, avg_response>>

(***************************************************************************)
(* SQL helpers.                                                            *)
(***************************************************************************)
Max(a, b) == IF a >= b THEN a ELSE b

\* the largest rowid in the table, 0 when it is empty
MaxRowid(rows) ==
    IF rows = {} THEN 0
    ELSE CHOOSE m \in {r.id : r \in rows} : \A r \in rows : r.id <= m

\* INTEGER PRIMARY KEY without AUTOINCREMENT: one more than the largest
\* rowid now in the table
NextRowidOfTable(rows, seq) == MaxRowid(rows) + 1

\* INTEGER PRIMARY KEY AUTOINCREMENT: one more than the largest rowid the
\* table has ever held
NextRowid(rows, seq) == Max(seq, MaxRowid(rows)) + 1

\* a full table scan walks the rowid b-tree: rows come out by ascending rowid
RECURSIVE ScanByRowid(_)
ScanByRowid(rows) ==
    IF rows = {} THEN <<>>
    ELSE LET first == CHOOSE r \in rows : \A q \in rows : r.id <= q.id
         IN  <<first>> \o ScanByRowid(rows \ {first})

\* WHERE id=?
WhereId(rows, id) == { r \in rows : r.id = id }

(***************************************************************************)
(* CRUD functions of db_services.py.  Each takes the table as it is and    *)
(* yields the table, the sequence and the returned value after the call.   *)
(***************************************************************************)
\* create_patient inserting the caller's own id when the Patient carries one
create_patient_keeps_id(patient) ==
    LET patient_id == IF patient.id # NoId THEN patient.id
                      ELSE NextRowid(patients, sqlite_sequence)
    IN  /\ patients' = patients \cup
              { Patient(patient_id, patient.name, patient.age, patient.disease) }
        /\ sqlite_sequence' = Max(sqlite_sequence, patient_id)
        /\ ret' = [kind |-> "id", v |-> patient_id]

\* INSERT INTO patients(name, age, disease) VALUES(?, ?, ?); return lastrowid
create_patient(patient) ==
    LET patient_id == NextRowid(patients, sqlite_sequence)
    IN  /\ patients' = patients \cup
              { Patient(patient_id, patient.name, patient.age, patient.disease) }
        /\ sqlite_sequence' = patient_id
        /\ ret' = [kind |-> "id", v |-> patient_id]

\* SELECT * handing the rows back newest first
SelectAllDescending(rows) ==
    LET asc == ScanByRowid(rows)
    IN  [i \in 1 .. Len(asc) |-> asc[Len(asc) + 1 - i]]

\* SELECT * FROM patients; [Patient(*row) for row in rows]
SelectAll(rows) == ScanByRowid(rows)

read_all_patients ==
    /\ ret' = [kind |-> "patients", v |-> SelectAll(patients)]
    /\ UNCHANGED <<patients, sqlite_sequence>>

\* SELECT by position in the table instead of by id
SelectByPosition(rows, patient_id) ==
    LET all == ScanByRowid(rows)
    IN  IF patient_id \in 1 .. Len(all)
        THEN [kind |-> "patient", v |-> all[patient_id]]
        ELSE None

\* SELECT * FROM patients WHERE id=?; fetchone(); Patient(*row) if row else None
SelectById(rows, patient_id) ==
    LET found == ScanByRowid(WhereId(rows, patient_id))
    IN  IF found = <<>> THEN None ELSE [kind |-> "patient", v |-> found[1]]

read_patient_by_id(patient_id) ==
    /\ ret' = SelectById(patients, patient_id)
    /\ UNCHANGED <<patients, sqlite_sequence>>

\* UPDATE that inserts the row when no row has the id
UpdateRowsUpsert(rows, patient) ==
    (rows \ WhereId(rows, patient.id)) \cup
        { Patient(patient.id, patient.name, patient.age, patient.disease) }

\* UPDATE that sets name and age and leaves disease as it was
UpdateRowsKeepsDisease(rows, patient) ==
    { IF r.id = patient.id
      THEN Patient(r.id, patient.name, patient.age, r.disease)
      ELSE r : r \in rows }

\* UPDATE patients SET name=?, age=?, disease=? WHERE id=?; return rowcount
UpdateRows(rows, patient) ==
    { IF r.id = patient.id
      THEN Patient(r.id, patient.name, patient.age, patient.disease)
      ELSE r : r \in rows }

update_patient(patient) ==
    /\ patients' = UpdateRows(patients, patient)
    /\ ret' = [kind |-> "rowcount", v |-> Cardinality(WhereId(patients, patient.id))]
    /\ UNCHANGED sqlite_sequence

\* DELETE whose transaction is never committed
DeleteRowsUncommitted(rows, patient_id) == rows

\* DELETE that takes the rows after the one with the id along
DeleteRowsFrom(rows, patient_id) == { r \in rows : r.id < patient_id }

\* DELETE FROM patients WHERE id=?; return rowcount
DeleteRows(rows, patient_id) == rows \ WhereId(rows, patient_id)

\* delete_patient answering 1 whenever the statement ran
delete_patient_returns_one(patient_id) ==
    /\ patients' = DeleteRows(patients, patient_id)
    /\ ret' = [kind |-> "rowcount", v |-> 1]
    /\ UNCHANGED sqlite_sequence

delete_patient(patient_id) ==
    /\ patients' = DeleteRows(patients, patient_id)
    /\ ret' = [kind |-> "rowcount", v |-> Cardinality(WhereId(patients, patient_id))]
    /\ UNCHANGED sqlite_sequence

(***************************************************************************)
(* The calls a caller can make, with the history the properties read.      *)
(***************************************************************************)
Create(patient) ==
    /\ sqlite_sequence < MaxId
    /\ create_patient(patient)
    /\ created' = IF only_creates
                  THEN Append(created, Patient(ret'.v, patient.name, patient.age,
                                               patient.disease))
                  ELSE created
    /\ deleted' = {}
    /\ ever_created' = ever_created \cup {ret'.v}
    /\ UNCHANGED ever_deleted
    /\ last_call' = [op |-> "create",
                     p |-> Patient(ret'.v, patient.name, patient.age, patient.disease)]
    /\ UNCHANGED only_creates
    /\ UNCHANGED <<aggVars, otherVars>>

ReadAll ==
    /\ read_all_patients
    /\ last_call' = [op |-> "read_all"]
    /\ UNCHANGED <<created, only_creates, deleted, ever_created, ever_deleted>>
    /\ UNCHANGED <<aggVars, otherVars>>

ReadById(patient_id) ==
    /\ read_patient_by_id(patient_id)
    /\ last_call' = [op |-> "read_by_id", id |-> patient_id]
    /\ UNCHANGED <<created, only_creates, deleted, ever_created, ever_deleted>>
    /\ UNCHANGED <<aggVars, otherVars>>

Update(patient) ==
    /\ update_patient(patient)
    /\ only_creates' = FALSE
    /\ created' = <<>>
    /\ last_call' = [op |-> "update", id |-> patient.id]
    /\ UNCHANGED <<deleted, ever_created, ever_deleted>>
    /\ UNCHANGED <<aggVars, otherVars>>

Delete(patient_id) ==
    /\ delete_patient(patient_id)
    /\ only_creates' = FALSE
    /\ created' = <<>>
    /\ deleted' = deleted \cup {patient_id}
    /\ ever_deleted' = IF ret'.v = 1 THEN ever_deleted \cup {patient_id}
                       ELSE ever_deleted
    /\ UNCHANGED ever_created
    /\ last_call' = [op |-> "delete", id |-> patient_id]
    /\ UNCHANGED <<aggVars, otherVars>>

\* no aggregation has been called
AggIdle ==
    /\ pc = "idle"
    /\ batch_size = batch_size_default
    /\ local_patients = <<>>
    /\ futures = <<>>
    /\ range_i = 0
    /\ joined = 0
    /\ total_age = 0
    /\ total_count = 0
    /\ average_age = NoCall

\* calculate_average_ages has not been called
PassIdle == average_ages = NoCall

\* the callers that share the database file, each with connections of its own
Clients == { "a", "b" }

\* no caller is inside a store call, no transaction is open
ConnIdle ==
    /\ conn = [c \in Clients |-> [at |-> "idle"]]
    /\ reserved = "free"

\* no request is being handled, no response has been sent
HttpIdle ==
    /\ http = [c \in Clients |-> [at |-> "idle"]]
    /\ response = NoCall

\* no snapshot file yet, no scrape and no lookup running
CacheIdle ==
    /\ scraped_file = [exists |-> FALSE, text |-> <<>>]
    /\ scraper = [at |-> "idle"]
    /\ lookup = "idle"
    /\ scraped_response = NoCall
    /\ previous_snapshot = [exists |-> FALSE, text |-> <<>>]

\* no average-age request is being handled, none has been answered
AvgIdle ==
    /\ avg_request = [at |-> "idle"]
    /\ avg_response = NoCall

\* nothing but the store and the pooled aggregation has run
RestIdle ==
    /\ PassIdle
    /\ ConnIdle
    /\ HttpIdle
    /\ CacheIdle
    /\ AvgIdle

\* patient_table_create on a fresh database file: an empty table
Init ==
    /\ patients = {}
    /\ sqlite_sequence = 0
    /\ ret = NoCall
    /\ created = <<>>
    /\ only_creates = TRUE
    /\ deleted = {}
    /\ ever_created = { r.id : r \in patients }
    /\ ever_deleted = {}
    /\ last_call = [op |-> "none"]
    /\ AggIdle
    /\ RestIdle

Next ==
    \/ \E p \in PatientArgs : Create(p)
    \/ ReadAll
    \/ \E id \in IdArgs : ReadById(id)
    \/ \E p \in PatientArgs : Update(p)
    \/ \E id \in IdArgs : Delete(id)

Spec == Init /\ [][Next]_vars

(***************************************************************************)
(* Python's int(str): surrounding whitespace is dropped, one sign may lead, *)
(* then decimal digits, single underscores allowed between two digits.     *)
(* Anything else raises ValueError.                                        *)
(***************************************************************************)
Digits == <<"0", "1", "2", "3", "4", "5", "6", "7", "8", "9">>

IsDigit(c) == \E d \in 1 .. 10 : Digits[d] = c

DigitValue(c) == (CHOOSE d \in 1 .. 10 : Digits[d] = c) - 1

RECURSIVE LStrip(_)
LStrip(s) == IF s # <<>> /\ Head(s) = " " THEN LStrip(Tail(s)) ELSE s

RECURSIVE RStrip(_)
RStrip(s) ==
    IF s # <<>> /\ s[Len(s)] = " " THEN RStrip(SubSeq(s, 1, Len(s) - 1)) ELSE s

\* digits, with single underscores only between two digits
IsDigitString(s) ==
    /\ s # <<>>
    /\ \A k \in 1 .. Len(s) :
           \/ IsDigit(s[k])
           \/ /\ s[k] = "_"
              /\ 1 < k
              /\ k < Len(s)
              /\ IsDigit(s[k - 1])
              /\ IsDigit(s[k + 1])

RECURSIVE DecimalValue(_, _)
DecimalValue(s, acc) ==
    IF s = <<>> THEN acc
    ELSE IF Head(s) = "_" THEN DecimalValue(Tail(s), acc)
    ELSE DecimalValue(Tail(s), 10 * acc + DigitValue(Head(s)))

\* int(text): [ok |-> TRUE, v |-> the integer], or [ok |-> FALSE] for ValueError
ParseInt(text) ==
    LET t == RStrip(LStrip(text))
        signed == t # <<>> /\ Head(t) \in {"+", "-"}
        body == IF signed THEN Tail(t) ELSE t
    IN  IF IsDigitString(body)
        THEN [ok |-> TRUE,
              v |-> IF signed /\ Head(t) = "-" THEN 0 - DecimalValue(body, 0)
                    ELSE DecimalValue(body, 0)]
        ELSE [ok |-> FALSE]

(***************************************************************************)
(* Average age: calculate_batch_average_age and calculate_average_age.     *)
(***************************************************************************)
\* a worker that stops at the first age that is no number
RECURSIVE BatchLoopStopsAtInvalid(_, _, _)
BatchLoopStopsAtInvalid(batch, age_sum, valid_count) ==
    IF batch = <<>> THEN <<age_sum, valid_count>>
    ELSE LET age == ParseInt(Head(batch).age)
         IN  IF age.ok
             THEN BatchLoopStopsAtInvalid(Tail(batch), age_sum + age.v, valid_count + 1)
             ELSE <<age_sum, valid_count>>

\* for patient in patients: try int(patient.age) ... except: log and go on
RECURSIVE BatchLoop(_, _, _)
BatchLoop(batch, age_sum, valid_count) ==
    IF batch = <<>> THEN <<age_sum, valid_count>>
    ELSE LET age == ParseInt(Head(batch).age)
         IN  IF age.ok
             THEN BatchLoop(Tail(batch), age_sum + age.v, valid_count + 1)
             ELSE BatchLoop(Tail(batch), age_sum, valid_count)

\* returns (sum of ages, count of valid ages) of one batch
calculate_batch_average_age(batch) == BatchLoop(batch, 0, 0)

Min(a, b) == IF a <= b THEN a ELSE b

\* a slice that loses the last record of every batch
SliceDropsLast(list, lo, hi) == SubSeq(list, lo + 1, Min(hi, Len(list)) - 1)

\* Python's list[lo:hi] for 0 <= lo: positions lo .. hi-1, cut at the end
Slice(list, lo, hi) == SubSeq(list, lo + 1, Min(hi, Len(list)))

\* a range that still yields the index equal to its stop
RangeYieldsStop(index, n, step) == step > 0 /\ index <= n

\* whether range(0, n, step) still yields index: step 0 is refused before
RangeYields(index, n, step) == step > 0 /\ index < n

RECURSIVE Gcd(_, _)
Gcd(a, b) == IF b = 0 THEN a ELSE Gcd(b, a % b)

Abs(a) == IF a < 0 THEN 0 - a ELSE a

\* total_age / total_count: the quotient as a fraction in lowest terms, which
\* is what fixes the float that true division yields
Quotient(age_sum, count) ==
    LET g == Gcd(Abs(age_sum), count)
    IN  [kind |-> "float", num |-> age_sum \div g, den |-> count \div g]

\* a result test that takes a zero sum for "no data"
AverageOrNoneFalsyZero(age_sum, count) ==
    IF count = 0 \/ age_sum = 0 THEN None ELSE Quotient(age_sum, count)

\* if total_count == 0: return None; return total_age / total_count
AverageOrNone(age_sum, count) ==
    IF count = 0 THEN None ELSE Quotient(age_sum, count)

\* patients = read_all_patients(); if not patients: return None; the pool is
\* opened and the for loop over range(0, len(patients), batch_size) entered
AverageCall(b) ==
    /\ pc = "idle"
    /\ batch_size' = b
    /\ local_patients' = SelectAll(patients)
    /\ total_age' = 0
    /\ total_count' = 0
    /\ futures' = <<>>
    /\ range_i' = 0
    /\ joined' = 0
    /\ IF SelectAll(patients) = <<>>
       THEN pc' = "done" /\ average_age' = None
       ELSE /\ average_age' = average_age
            /\ pc' = IF b = 0 THEN "raised"
                     ELSE IF RangeYields(0, Len(SelectAll(patients)), b) THEN "submit"
                     ELSE "join"
    /\ UNCHANGED <<storeVars, histVars, otherVars>>

\* batch = patients[i : i + batch_size]; futures.append(executor.submit(...))
Submit ==
    /\ pc = "submit"
    /\ futures' = Append(futures,
                         [batch |-> Slice(local_patients, range_i, range_i + batch_size),
                          done |-> FALSE,
                          result |-> <<0, 0>>])
    /\ range_i' = range_i + batch_size
    /\ pc' = IF RangeYields(range_i + batch_size, Len(local_patients), batch_size)
             THEN "submit" ELSE "join"
    /\ UNCHANGED <<batch_size, local_patients, joined, total_age, total_count,
                   average_age, storeVars, histVars, otherVars>>

\* a worker that also adds its partial result to the caller's totals
WorkerAddsToTotals(f) ==
    /\ ~futures[f].done
    /\ futures' = [futures EXCEPT ![f].done = TRUE,
                                  ![f].result = calculate_batch_average_age(futures[f].batch)]
    /\ total_age' = total_age + calculate_batch_average_age(futures[f].batch)[1]
    /\ total_count' = total_count + calculate_batch_average_age(futures[f].batch)[2]
    /\ UNCHANGED <<pc, batch_size, local_patients, range_i, joined, average_age,
                   storeVars, histVars, otherVars>>

\* a pool thread runs calculate_batch_average_age on the batch of one task
Worker(f) ==
    /\ ~futures[f].done
    /\ futures' = [futures EXCEPT ![f].done = TRUE,
                                  ![f].result = calculate_batch_average_age(futures[f].batch)]
    /\ UNCHANGED <<pc, batch_size, local_patients, range_i, joined, total_age,
                   total_count, average_age, storeVars, histVars, otherVars>>

\* a result loop that does not wait for the task to finish
JoinWithoutWaiting ==
    /\ pc = "join"
    /\ joined < Len(futures)
    /\ total_age' = total_age + futures[joined + 1].result[1]
    /\ total_count' = total_count + futures[joined + 1].result[2]
    /\ joined' = joined + 1
    /\ UNCHANGED <<pc, batch_size, local_patients, futures, range_i, average_age,
                   storeVars, histVars, otherVars>>

\* for f in futures: batch_total, batch_count = f.result(); totals += ...
Join ==
    /\ pc = "join"
    /\ joined < Len(futures)
    /\ futures[joined + 1].done
    /\ total_age' = total_age + futures[joined + 1].result[1]
    /\ total_count' = total_count + futures[joined + 1].result[2]
    /\ joined' = joined + 1
    /\ UNCHANGED <<pc, batch_size, local_patients, futures, range_i, average_age,
                   storeVars, histVars, otherVars>>

\* a return taken as soon as one result has been consumed
FinishAfterFirst ==
    /\ pc = "join"
    /\ joined >= 1 \/ futures = <<>>
    /\ average_age' = AverageOrNone(total_age, total_count)
    /\ pc' = "done"
    /\ UNCHANGED <<batch_size, local_patients, futures, range_i, joined, total_age,
                   total_count, storeVars, histVars, otherVars>>

\* the pool is shut down; None or total_age / total_count is returned
Finish ==
    /\ pc = "join"
    /\ joined = Len(futures)
    /\ average_age' = AverageOrNone(total_age, total_count)
    /\ pc' = "done"
    /\ UNCHANGED <<batch_size, local_patients, futures, range_i, joined, total_age,
                   total_count, storeVars, histVars, otherVars>>

\* a single pass that counts a record before its age is parsed
RECURSIVE AgesLoopCountsAll(_, _, _)
AgesLoopCountsAll(list, age_sum, valid_count) ==
    IF list = <<>> THEN <<age_sum, valid_count>>
    ELSE LET age == ParseInt(Head(list).age)
         IN  IF age.ok
             THEN AgesLoopCountsAll(Tail(list), age_sum + age.v, valid_count + 1)
             ELSE AgesLoopCountsAll(Tail(list), age_sum, valid_count + 1)

\* calculate_average_ages: for patient in patients: try int(patient.age) ...
RECURSIVE AgesLoop(_, _, _)
AgesLoop(list, age_sum, valid_count) ==
    IF list = <<>> THEN <<age_sum, valid_count>>
    ELSE LET age == ParseInt(Head(list).age)
         IN  IF age.ok
             THEN AgesLoop(Tail(list), age_sum + age.v, valid_count + 1)
             ELSE AgesLoop(Tail(list), age_sum, valid_count)

\* calculate_average_ages on the list read_all_patients returns
AverageAges(list) ==
    IF list = <<>> THEN None
    ELSE LET totals == AgesLoop(list, 0, 0)
         IN  AverageOrNone(totals[1], totals[2])

\* calculate_average_ages(): one call, no pool, run by the caller's thread
AverageAgesCall ==
    /\ average_ages = NoCall
    /\ average_ages' = AverageAges(SelectAll(patients))
    /\ UNCHANGED <<storeVars, histVars, aggVars, connVars, httpVars, cacheVars, avgVars>>

\* the rows of a store filled by Creates alone, one per age text
RowsOf(ages) ==
    { Patient(k, "John Doe", ages[k], "Hypertension") : k \in 1 .. Len(ages) }

AgeLists == UNION { [1 .. n -> AggAges] : n \in 0 .. MaxPatients }

\* a store as seed_data or a run of Creates leaves it, no aggregation called
InitAgg ==
    /\ \E ages \in AgeLists :
           /\ patients = RowsOf(ages)
           /\ sqlite_sequence = Len(ages)
           /\ created = SelectAll(RowsOf(ages))
           /\ last_call = IF ages = <<>> THEN [op |-> "none"]
                          ELSE [op |-> "create",
                                p |-> Patient(Len(ages), "John Doe", ages[Len(ages)],
                                              "Hypertension")]
           /\ ret = IF ages = <<>> THEN NoCall ELSE [kind |-> "id", v |-> Len(ages)]
    /\ only_creates = TRUE
    /\ deleted = {}
    /\ ever_created = { r.id : r \in patients }
    /\ ever_deleted = {}
    /\ AggIdle
    /\ RestIdle

NextAgg ==
    \/ \E b \in BatchSizes : AverageCall(b)
    \/ AverageAgesCall
    \/ Submit
    \/ \E f \in 1 .. Len(futures) : Worker(f)
    \/ Join
    \/ Finish

SpecAgg == InitAgg /\ [][NextAgg]_vars

\* the pooled call alone, on stores whose ages are a valid or an unparsable
\* text: which tasks exist and when they finish does not depend on more
PoolAges == { Age45, AgeInvalid }

InitPool ==
    /\ InitAgg
    /\ \A p \in patients : p.age \in PoolAges

NextPool ==
    \/ \E b \in BatchSizes : AverageCall(b)
    \/ Submit
    \/ \E f \in 1 .. Len(futures) : Worker(f)
    \/ Join
    \/ Finish

SpecPool == InitPool /\ [][NextPool]_vars

\* the caller's thread keeps running, and so does every pool thread that has
\* taken a task: the pool has a thread for each of the few tasks
SpecPoolFair ==
    /\ SpecPool
    /\ WF_vars(Submit)
    /\ WF_vars(Join)
    /\ WF_vars(Finish)
    /\ \A f \in 1 .. MaxPatients : WF_vars(f \in DOMAIN futures /\ Worker(f))

\* calculate_average_age when its read_all_patients meets an sqlite3 error:
\* the read returns [], `if not patients` holds and None is returned
AverageCallReadFails(b) ==
    /\ pc = "idle"
    /\ batch_size' = b
    /\ local_patients' = <<>>
    /\ total_age' = 0
    /\ total_count' = 0
    /\ futures' = <<>>
    /\ range_i' = 0
    /\ joined' = 0
    /\ pc' = "done"
    /\ average_age' = None
    /\ UNCHANGED <<storeVars, histVars, otherVars>>

NextPoolFault ==
    \/ NextPool
    \/ \E b \in BatchSizes : AverageCallReadFails(b)

\* the pooled call over a store whose reads can fail
SpecPoolFault == InitPool /\ [][NextPoolFault]_vars

(***************************************************************************)
(* The store calls at the grain of one connection.  Every call opens a     *)
(* connection of its own; a writing statement opens a transaction that     *)
(* takes the write lock of the database file and works on pages of its     *)
(* own, commit installs them and releases the lock, and leaving the with   *)
(* block on an exception rolls the transaction back.  Readers see the      *)
(* committed table.                                                        *)
(***************************************************************************)
\* Python's None in a field of a Patient (a JSON null in the request): a
\* value no text a caller types is equal to
NullText == "<None>"
NullAge == <<NullText>>

\* name TEXT NOT NULL, age TEXT NOT NULL, disease TEXT NOT NULL
NotNull(patient) ==
    /\ patient.name # NullText
    /\ patient.age # NullAge
    /\ patient.disease # NullText

\* the triples callers pass here: two the table accepts and, for each
\* column, one with None in it
ConnFieldArgs ==
    { <<"John Doe", Age45, "Hypertension">>,
      <<"Jane Smith", Age45, "Hypertension">>,
      <<NullText, Age45, "Hypertension">>,
      <<"John Doe", NullAge, "Hypertension">>,
      <<"John Doe", Age45, NullText>> }

ConnCreateArgs == { Patient(NoId, f[1], f[2], f[3]) : f \in ConnFieldArgs }
ConnUpdateArgs == { Patient(i, f[1], f[2], f[3]) : i \in IdArgs, f \in ConnFieldArgs }

\* where a call can meet an sqlite3 error: before its statement has run
\* (the file cannot be opened, disk error, database is locked) or in commit
ExecuteFaults == { "execute" }
CommitFaults == { "commit" }

\* except Exception in create_patient: log, return None
create_patient_except ==
    /\ ret' = None
    /\ UNCHANGED <<patients, sqlite_sequence>>

\* except Exception in read_all_patients: log, return []
read_all_patients_except ==
    /\ ret' = [kind |-> "patients", v |-> <<>>]
    /\ UNCHANGED <<patients, sqlite_sequence>>

\* except Exception in read_patient_by_id: log, return None
read_patient_by_id_except ==
    /\ ret' = None
    /\ UNCHANGED <<patients, sqlite_sequence>>

\* except Exception in update_patient: log, return 0
update_patient_except ==
    /\ ret' = [kind |-> "rowcount", v |-> 0]
    /\ UNCHANGED <<patients, sqlite_sequence>>

\* except Exception in delete_patient: log, return 0
delete_patient_except ==
    /\ ret' = [kind |-> "rowcount", v |-> 0]
    /\ UNCHANGED <<patients, sqlite_sequence>>

\* the row an INSERT adds to the table it works on
InsertRow(rows, seq, patient) ==
    rows \cup { Patient(NextRowid(rows, seq), patient.name, patient.age,
                        patient.disease) }

\* a write lock every transaction gets at once
ReservesAtOnce(c) == TRUE

\* the statement gets the write lock when no other transaction holds it;
\* until then sqlite3 keeps retrying
CanReserve(c) == reserved = "free"

\* a rollback that leaves the pages of the transaction in the file
RollbackKeepsPages(c) ==
    /\ patients' = conn[c].rows
    /\ sqlite_sequence' = conn[c].seq

\* Connection.__exit__ on an exception: the transaction is rolled back
Rollback(c) == UNCHANGED <<patients, sqlite_sequence>>

\* create_patient up to cur.lastrowid
ConnCreate(c, patient, fault) ==
    /\ conn[c].at = "idle"
    /\ IF fault \in ExecuteFaults \/ ~NotNull(patient)
       THEN /\ create_patient_except
            /\ UNCHANGED connVars
       ELSE /\ CanReserve(c)
            /\ sqlite_sequence < MaxId
            /\ conn' = [conn EXCEPT ![c] =
                   [at |-> "commit", op |-> "create", patient |-> patient,
                    rows |-> InsertRow(patients, sqlite_sequence, patient),
                    seq |-> NextRowid(patients, sqlite_sequence),
                    result |-> [kind |-> "id",
                                v |-> NextRowid(patients, sqlite_sequence)]]]
            /\ reserved' = c
            /\ UNCHANGED storeVars
    /\ last_call' = [op |-> "create", by |-> c, fault |-> fault]
    /\ UNCHANGED <<created, only_creates, deleted, ever_created, ever_deleted>>
    /\ UNCHANGED <<aggVars, passVars, httpVars, cacheVars, avgVars>>

\* update_patient up to cur.rowcount: NOT NULL is checked on the rows the
\* statement changes
ConnUpdate(c, patient, fault) ==
    /\ conn[c].at = "idle"
    /\ IF \/ fault \in ExecuteFaults
          \/ ~NotNull(patient) /\ WhereId(patients, patient.id) # {}
       THEN /\ update_patient_except
            /\ UNCHANGED connVars
       ELSE /\ CanReserve(c)
            /\ conn' = [conn EXCEPT ![c] =
                   [at |-> "commit", op |-> "update", patient |-> patient,
                    rows |-> UpdateRows(patients, patient),
                    seq |-> sqlite_sequence,
                    result |-> [kind |-> "rowcount",
                                v |-> Cardinality(WhereId(patients, patient.id))]]]
            /\ reserved' = c
            /\ UNCHANGED storeVars
    /\ last_call' = [op |-> "update", by |-> c, fault |-> fault]
    /\ UNCHANGED <<created, only_creates, deleted, ever_created, ever_deleted>>
    /\ UNCHANGED <<aggVars, passVars, httpVars, cacheVars, avgVars>>

\* delete_patient up to cur.rowcount
ConnDelete(c, patient_id, fault) ==
    /\ conn[c].at = "idle"
    /\ IF fault \in ExecuteFaults
       THEN /\ delete_patient_except
            /\ UNCHANGED connVars
       ELSE /\ CanReserve(c)
            /\ conn' = [conn EXCEPT ![c] =
                   [at |-> "commit", op |-> "delete",
                    patient |-> Patient(patient_id, "", <<>>, ""),
                    rows |-> DeleteRows(patients, patient_id),
                    seq |-> sqlite_sequence,
                    result |-> [kind |-> "rowcount",
                                v |-> Cardinality(WhereId(patients, patient_id))]]]
            /\ reserved' = c
            /\ UNCHANGED storeVars
    /\ last_call' = [op |-> "delete", by |-> c, fault |-> fault]
    /\ UNCHANGED <<created, only_creates, deleted, ever_created, ever_deleted>>
    /\ UNCHANGED <<aggVars, passVars, httpVars, cacheVars, avgVars>>

\* what the except branch of a writing call returns
ExceptValue(op) ==
    IF op = "create" THEN None ELSE [kind |-> "rowcount", v |-> 0]

\* con.commit() and the return, or the exception it raises
ConnCommit(c, fault) ==
    /\ conn[c].at = "commit"
    /\ IF fault \in CommitFaults
       THEN /\ Rollback(c)
            /\ ret' = ExceptValue(conn[c].op)
       ELSE /\ patients' = conn[c].rows
            /\ sqlite_sequence' = conn[c].seq
            /\ ret' = conn[c].result
    /\ conn' = [conn EXCEPT ![c] = [at |-> "idle"]]
    /\ reserved' = "free"
    /\ last_call' = [op |-> conn[c].op, by |-> c, fault |-> fault]
    /\ UNCHANGED <<created, only_creates, deleted, ever_created, ever_deleted>>
    /\ UNCHANGED <<aggVars, passVars, httpVars, cacheVars, avgVars>>

\* read_all_patients on a connection of its own
ConnReadAll(c, fault) ==
    /\ conn[c].at = "idle"
    /\ IF fault \in ExecuteFaults
       THEN read_all_patients_except
       ELSE read_all_patients
    /\ last_call' = [op |-> "read_all", by |-> c, fault |-> fault]
    /\ UNCHANGED <<created, only_creates, deleted, ever_created, ever_deleted>>
    /\ UNCHANGED <<aggVars, passVars, connVars, httpVars, cacheVars, avgVars>>

\* read_patient_by_id on a connection of its own
ConnReadById(c, patient_id, fault) ==
    /\ conn[c].at = "idle"
    /\ IF fault \in ExecuteFaults
       THEN read_patient_by_id_except
       ELSE read_patient_by_id(patient_id)
    /\ last_call' = [op |-> "read_by_id", by |-> c, fault |-> fault,
                     id |-> patient_id]
    /\ UNCHANGED <<created, only_creates, deleted, ever_created, ever_deleted>>
    /\ UNCHANGED <<aggVars, passVars, connVars, httpVars, cacheVars, avgVars>>

NextConn ==
    \/ \E c \in Clients, p \in ConnCreateArgs, f \in ExecuteFaults \cup {"none"} :
           ConnCreate(c, p, f)
    \/ \E c \in Clients, p \in ConnUpdateArgs, f \in ExecuteFaults \cup {"none"} :
           ConnUpdate(c, p, f)
    \/ \E c \in Clients, id \in IdArgs, f \in ExecuteFaults \cup {"none"} :
           ConnDelete(c, id, f)
    \/ \E c \in Clients, f \in CommitFaults \cup {"none"} : ConnCommit(c, f)
    \/ \E c \in Clients, f \in ExecuteFaults \cup {"none"} : ConnReadAll(c, f)
    \/ \E c \in Clients, id \in IdArgs, f \in ExecuteFaults \cup {"none"} :
           ConnReadById(c, id, f)

SpecConn == Init /\ [][NextConn]_vars

(***************************************************************************)
(* The /patients handlers of crud_operations.py.  The Flask server runs    *)
(* each request on a thread of its own; every db_services call a handler   *)
(* makes is one step, and a handler that makes two calls takes two steps.  *)
(***************************************************************************)
\* the largest id the store assigns while requests are being served
MaxHttpId == 2

\* ids in the URL of a request
HttpIdArgs == 1 .. MaxHttpId

\* the JSON bodies clients send
HttpFieldArgs ==
    { <<"John Doe", Age45, "Hypertension">>,
      <<"Jane Smith", Age45, "Hypertension">> }

\* whether the db_services call a handler makes meets an sqlite3 error
HttpFaults == ExecuteFaults \cup {"none"}

\* jsonify({"error": ...}) and jsonify({"message": ...})
Error(text) == [kind |-> "error", v |-> text]
Message(text) == [kind |-> "message", v |-> text]

\* what Flask answers when a handler raises: 500 Internal Server Error
InternalServerError == Error("Internal Server Error")

\* a response, with what the request went through: the call that met an
\* sqlite3 error ("none", "read" or "write"), whether the id of the URL was
\* absent when the store was asked, and the row the request wrote, if any
Response(method, status, body, failed, absent, wrote) ==
    [method |-> method, status |-> status, body |-> body,
     failed |-> failed, absent |-> absent, wrote |-> wrote]

\* a handler frame common to all /patients handlers
HttpFrame == UNCHANGED <<histVars, aggVars, passVars, connVars, cacheVars, avgVars>>

\* GET /patients
http_read_all_patients(c, fault) ==
    /\ http[c].at = "idle"
    /\ IF fault = "none" THEN read_all_patients ELSE read_all_patients_except
    /\ response' = Response("GET /patients", 200, ret',
                            IF fault = "none" THEN "none" ELSE "read", FALSE, None)
    /\ UNCHANGED http
    /\ HttpFrame

\* GET /patients/<id>
read_patient_by_id_endpoint(c, patient_id, fault) ==
    /\ http[c].at = "idle"
    /\ IF fault = "none"
       THEN read_patient_by_id(patient_id)
       ELSE read_patient_by_id_except
    /\ response' =
           IF ret' = None
           THEN Response("GET /patients/id", 404, Error("Patient not found"),
                         IF fault = "none" THEN "none" ELSE "read",
                         WhereId(patients, patient_id) = {}, None)
           ELSE Response("GET /patients/id", 200, ret', "none", FALSE, None)
    /\ UNCHANGED http
    /\ HttpFrame

\* POST /patients up to the test of patient_id
create_patient_endpoint(c, patient_data, fault) ==
    /\ http[c].at = "idle"
    /\ IF fault = "none"
       THEN /\ sqlite_sequence < MaxHttpId
            /\ create_patient(Patient(NoId, patient_data[1], patient_data[2],
                                      patient_data[3]))
       ELSE create_patient_except
    /\ IF ret' = None
       THEN /\ response' = Response("POST /patients", 500,
                                    Error("Failed to create patient"),
                                    "write", FALSE, None)
            /\ UNCHANGED http
       ELSE /\ http' = [http EXCEPT ![c] =
                   [at |-> "created", patient_id |-> ret'.v,
                    patient_data |-> patient_data]]
            /\ UNCHANGED response
    /\ HttpFrame

\* what a handler answers after its second call, read_patient_by_id: the
\* row read, or Flask's 500 when the call gave None and .id is taken of it
Reread(method, status, read, failed, wrote) ==
    IF read = None
    THEN Response(method, 500, InternalServerError, failed, FALSE, wrote)
    ELSE Response(method, status, read, failed, FALSE, wrote)

\* POST /patients from created_patient = read_patient_by_id(patient_id) on
create_patient_endpoint_read(c, fault) ==
    /\ http[c].at = "created"
    /\ IF fault = "none"
       THEN read_patient_by_id(http[c].patient_id)
       ELSE read_patient_by_id_except
    /\ response' = Reread("POST /patients", 201, ret',
                          IF fault = "none" THEN "none" ELSE "read",
                          [kind |-> "patient",
                           v |-> Patient(http[c].patient_id, http[c].patient_data[1],
                                         http[c].patient_data[2],
                                         http[c].patient_data[3])])
    /\ http' = [http EXCEPT ![c] = [at |-> "idle"]]
    /\ HttpFrame

\* PUT /patients/<id> up to the test of rows_updated
update_patient_endpoint(c, patient_id, patient_data, fault) ==
    /\ http[c].at = "idle"
    /\ IF fault = "none"
       THEN update_patient(Patient(patient_id, patient_data[1], patient_data[2],
                                   patient_data[3]))
       ELSE update_patient_except
    /\ IF ret'.v = 0
       THEN /\ response' = Response("PUT /patients/id", 404,
                                    Error("Patient not found or update failed"),
                                    IF fault = "none" THEN "none" ELSE "write",
                                    WhereId(patients, patient_id) = {}, None)
            /\ UNCHANGED http
       ELSE /\ http' = [http EXCEPT ![c] =
                   [at |-> "updated", patient_id |-> patient_id,
                    patient_data |-> patient_data]]
            /\ UNCHANGED response
    /\ HttpFrame

\* PUT /patients/<id> from updated_obj = read_patient_by_id(patient_id) on
update_patient_endpoint_read(c, fault) ==
    /\ http[c].at = "updated"
    /\ IF fault = "none"
       THEN read_patient_by_id(http[c].patient_id)
       ELSE read_patient_by_id_except
    /\ response' = Reread("PUT /patients/id", 200, ret',
                          IF fault = "none" THEN "none" ELSE "read",
                          [kind |-> "patient",
                           v |-> Patient(http[c].patient_id, http[c].patient_data[1],
                                         http[c].patient_data[2],
                                         http[c].patient_data[3])])
    /\ http' = [http EXCEPT ![c] = [at |-> "idle"]]
    /\ HttpFrame

\* DELETE /patients/<id>
delete_patient_endpoint(c, patient_id, fault) ==
    /\ http[c].at = "idle"
    /\ IF fault = "none" THEN delete_patient(patient_id) ELSE delete_patient_except
    /\ response' =
           IF ret'.v = 0
           THEN Response("DELETE /patients/id", 404, Error("Patient not found"),
                         IF fault = "none" THEN "none" ELSE "write",
                         WhereId(patients, patient_id) = {}, None)
           ELSE Response("DELETE /patients/id", 200, Message("deleted"),
                         "none", FALSE, None)
    /\ UNCHANGED http
    /\ HttpFrame

NextHttp ==
    \/ \E c \in Clients, f \in HttpFaults : http_read_all_patients(c, f)
    \/ \E c \in Clients, id \in HttpIdArgs, f \in HttpFaults :
           read_patient_by_id_endpoint(c, id, f)
    \/ \E c \in Clients, d \in HttpFieldArgs, f \in HttpFaults :
           create_patient_endpoint(c, d, f)
    \/ \E c \in Clients, f \in HttpFaults : create_patient_endpoint_read(c, f)
    \/ \E c \in Clients, id \in HttpIdArgs, d \in HttpFieldArgs, f \in HttpFaults :
           update_patient_endpoint(c, id, d, f)
    \/ \E c \in Clients, f \in HttpFaults : update_patient_endpoint_read(c, f)
    \/ \E c \in Clients, id \in HttpIdArgs, f \in HttpFaults :
           delete_patient_endpoint(c, id, f)

SpecHttp == Init /\ [][NextHttp]_vars

(***************************************************************************)
(* The snapshot file of scraped disease entries: scrape() of scraper.py    *)
(* writes it, get_scraped_data of crud_operations.py reads it.  The file   *)
(* is a sequence of tokens: "[", "]" and one token per entry.              *)
(***************************************************************************)
\* the most entries a scrape finds
MaxEntries == 2

\* the entries extract_diseases can return, each as one token
DiseaseEntries == { "Malaria", "Cholera" }

EntryLists == UNION { [1 .. n -> DiseaseEntries] : n \in 0 .. MaxEntries }

\* json.dump(diseases_list, json_file): the text of a list
Dump(diseases_list) == <<"[">> \o diseases_list \o <<"]">>

\* json.load that takes the entries of a text whose end is missing
JsonLoadLenient(text) ==
    IF Len(text) >= 1 /\ text[1] = "["
    THEN [ok |-> TRUE,
          v |-> SelectSeq(SubSeq(text, 2, Len(text)), LAMBDA t : t \in DiseaseEntries)]
    ELSE [ok |-> FALSE]

\* json.load(file): the list the text denotes, or JSONDecodeError
JsonLoad(text) ==
    IF /\ Len(text) >= 2
       /\ text[1] = "["
       /\ text[Len(text)] = "]"
       /\ \A k \in 2 .. (Len(text) - 1) : text[k] \in DiseaseEntries
    THEN [ok |-> TRUE, v |-> SubSeq(text, 2, Len(text) - 1)]
    ELSE [ok |-> FALSE]

CacheFrame ==
    UNCHANGED <<storeVars, histVars, aggVars, passVars, connVars, httpVars, avgVars>>

\* scrape() up to open(file_path, 'w'): the file is created or emptied
ScrapeOpen(diseases_list) ==
    /\ scraper.at = "idle"
    /\ scraped_file' = [exists |-> TRUE, text |-> <<>>]
    /\ scraper' = [at |-> "write", diseases_list |-> diseases_list, written |-> 0]
    /\ previous_snapshot' = scraped_file
    /\ UNCHANGED <<lookup, scraped_response>>
    /\ CacheFrame

\* the next piece of the text reaches the file
ScrapeWrite ==
    /\ scraper.at = "write"
    /\ scraper.written < Len(Dump(scraper.diseases_list))
    /\ scraped_file' = [scraped_file EXCEPT
           !.text = Append(@, Dump(scraper.diseases_list)[scraper.written + 1])]
    /\ scraper' = [scraper EXCEPT !.written = @ + 1]
    /\ UNCHANGED <<lookup, scraped_response, previous_snapshot>>
    /\ CacheFrame

\* the with block ends: the file is closed
ScrapeClose ==
    /\ scraper.at = "write"
    /\ scraper.written = Len(Dump(scraper.diseases_list))
    /\ scraper' = [at |-> "idle"]
    /\ UNCHANGED <<scraped_file, lookup, scraped_response, previous_snapshot>>
    /\ CacheFrame

\* GET /patients/scraped up to os.path.exists
get_scraped_data ==
    /\ lookup = "idle"
    /\ IF ~scraped_file.exists
       THEN /\ scraped_response' =
                   [status |-> 404, body |-> Error("Scraped JSON file not found")]
            /\ UNCHANGED lookup
       ELSE /\ lookup' = "open"
            /\ UNCHANGED scraped_response
    /\ UNCHANGED <<scraped_file, scraper, previous_snapshot>>
    /\ CacheFrame

\* GET /patients/scraped from open(json_file_path) on
get_scraped_data_load ==
    /\ lookup = "open"
    /\ scraped_response' =
           IF ~scraped_file.exists
           THEN [status |-> 500, body |-> Error("No such file or directory")]
           ELSE IF JsonLoad(scraped_file.text).ok
           THEN [status |-> 200,
                 body |-> [kind |-> "rates", v |-> JsonLoad(scraped_file.text).v]]
           ELSE [status |-> 500, body |-> Error("Invalid JSON format")]
    /\ lookup' = "idle"
    /\ UNCHANGED <<scraped_file, scraper, previous_snapshot>>
    /\ CacheFrame

NextCache ==
    \/ \E l \in EntryLists : ScrapeOpen(l)
    \/ ScrapeWrite
    \/ ScrapeClose
    \/ get_scraped_data
    \/ get_scraped_data_load

SpecCache == Init /\ [][NextCache]_vars

(***************************************************************************)
(* GET /patients/average-age of crud_operations.py, served while other     *)
(* callers write to the store.  The handler reads the store twice: in      *)
(* calculate_average_ages and again for the counts.                        *)
(***************************************************************************)
\* the records other callers write while the request is served
AvgFieldArgs ==
    { <<"John Doe", Age45, "Hypertension">>,
      <<"John Doe", AgeZero, "Hypertension">>,
      <<"John Doe", AgeInvalid, "Hypertension">> }

\* n / d rounded to the nearest integer, halves to the even one
RoundHalfEven(n, d) ==
    LET up == (2 * n + d) \div (2 * d)
    IN  IF (2 * n + d) % (2 * d) = 0 /\ up % 2 = 1 THEN up - 1 ELSE up

\* round(average_age, 2)
Round2(average) == Quotient(RoundHalfEven(100 * average.num, average.den), 100)

\* is_valid_age(age): int(age) does not raise
is_valid_age(age) == ParseInt(age).ok

\* sum(1 for patient in patients if is_valid_age(patient.age))
CountValid(list) == Cardinality({ k \in 1 .. Len(list) : is_valid_age(list[k].age) })

AvgFrame == UNCHANGED <<histVars, aggVars, passVars, connVars, httpVars, cacheVars>>

\* the list a read_all_patients call hands to its caller
ReadAllResult(fault) == IF fault = "none" THEN SelectAll(patients) ELSE <<>>

\* get_average_age up to the test of average_age
get_average_age(fault) ==
    /\ avg_request.at = "idle"
    /\ IF fault = "none" THEN read_all_patients ELSE read_all_patients_except
    /\ IF AverageAges(ReadAllResult(fault)) = None
       THEN /\ avg_response' =
                   [status |-> 404, body |-> Error("No valid ages found"),
                    failed |-> fault # "none"]
            /\ UNCHANGED avg_request
       ELSE /\ avg_request' =
                   [at |-> "averaged",
                    average_age |-> AverageAges(ReadAllResult(fault)),
                    seen |-> {SelectAll(patients)}]
            /\ UNCHANGED avg_response
    /\ AvgFrame

\* get_average_age from patients = db_services.read_all_patients() on
get_average_age_count(fault) ==
    /\ avg_request.at = "averaged"
    /\ IF fault = "none" THEN read_all_patients ELSE read_all_patients_except
    /\ avg_response' =
           [status |-> 200,
            body |-> [average_age |-> Round2(avg_request.average_age),
                      patient_count |-> CountValid(ReadAllResult(fault)),
                      total_patients |-> Len(ReadAllResult(fault))],
            failed |-> fault # "none"]
    /\ avg_request' = [at |-> "idle"]
    /\ AvgFrame

\* the most store contents one request is followed through
MaxSeen == 2

\* history: the contents the store has had while the request is served,
\* with the one another caller has just written
AvgSees ==
    /\ avg_request.at = "averaged" =>
           Cardinality(avg_request.seen \cup {SelectAll(patients')}) <= MaxSeen
    /\ avg_request' =
           IF avg_request.at = "averaged"
           THEN [avg_request EXCEPT !.seen = @ \cup {SelectAll(patients')}]
           ELSE avg_request
    /\ UNCHANGED avg_response
    /\ AvgFrame

\* store calls of other callers
AvgCreate(patient) ==
    /\ sqlite_sequence < MaxHttpId
    /\ create_patient(patient)
    /\ AvgSees

AvgUpdate(patient) ==
    /\ update_patient(patient)
    /\ AvgSees

AvgDelete(patient_id) ==
    /\ delete_patient(patient_id)
    /\ AvgSees

NextAvg ==
    \/ \E f \in HttpFaults : get_average_age(f)
    \/ \E f \in HttpFaults : get_average_age_count(f)
    \/ \E d \in AvgFieldArgs : AvgCreate(Patient(NoId, d[1], d[2], d[3]))
    \/ \E id \in HttpIdArgs, d \in AvgFieldArgs : AvgUpdate(Patient(id, d[1], d[2], d[3]))
    \/ \E id \in HttpIdArgs : AvgDelete(id)

SpecAvg == Init /\ [][NextAvg]_vars

(***************************************************************************)
(* Properties of the record store, checked under Spec.                     *)
(***************************************************************************)
IdsOf(rows) == { r.id : r \in rows }

\* C1: from an empty store and after Creates only, ReadAll returns exactly
\* one record per Create, in the order the Creates were made, each with the
\* fields passed and the id Create returned, all ids pairwise distinct; with
\* no Create at all it returns the empty sequence.
C1_ReadAllReturnsTheCreates ==
    only_creates =>
        /\ SelectAll(patients) = created
        /\ \A i, j \in 1 .. Len(created) :
               i # j => created[i].id # created[j].id
        /\ last_call.op = "read_all" => ret = [kind |-> "patients", v |-> created]

\* ReadAll has just returned three records made by three Creates
C1_Witness ==
    /\ only_creates
    /\ last_call.op = "read_all"
    /\ Len(created) = 3
    /\ created[1].name # created[2].name
    /\ ret = [kind |-> "patients", v |-> created]

\* C2: once Delete(id) has returned and no Create has been made since,
\* ReadById(id) returns None, whether or not the id was in the store.
C2_ReadByIdAfterDeleteIsNone ==
    /\ \A id \in deleted : SelectById(patients, id) = None
    /\ (last_call.op = "read_by_id" /\ last_call.id \in deleted) => ret = None

\* ReadById has just answered None for an id that was assigned and deleted,
\* while other records are still stored
C2_Witness ==
    /\ last_call.op = "read_by_id"
    /\ last_call.id \in deleted
    /\ last_call.id <= sqlite_sequence
    /\ ret = None
    /\ patients # {}

\* C3: Delete of an id in the store returns 1; Delete of an absent id returns
\* 0 and changes nothing; so a second Delete(id) right after one that
\* returned 1 returns 0 and leaves the store as the first one left it.
C3_DeleteStep(id) ==
    /\ ret'.kind = "rowcount"
    /\ WhereId(patients, id) # {} => ret'.v = 1
    /\ WhereId(patients, id) = {} =>
           /\ ret'.v = 0
           /\ patients' = patients
           /\ sqlite_sequence' = sqlite_sequence
    /\ (last_call = [op |-> "delete", id |-> id] /\ ret.v = 1) =>
           /\ ret'.v = 0
           /\ patients' = patients

C3_DeleteIsIdempotent ==
    [][\A id \in IdArgs : Delete(id) => C3_DeleteStep(id)]_vars

\* Delete has just returned 0 for an id the store had assigned
C3_Witness ==
    /\ last_call.op = "delete"
    /\ last_call.id <= sqlite_sequence
    /\ ret = [kind |-> "rowcount", v |-> 0]

\* C4: Update of a record whose id is not in the store returns 0 and leaves
\* the store exactly as it was.
C4_UpdateOfAbsentIdChangesNothing ==
    [][\A p \in PatientArgs :
           (Update(p) /\ WhereId(patients, p.id) = {}) =>
               /\ ret' = [kind |-> "rowcount", v |-> 0]
               /\ patients' = patients
               /\ sqlite_sequence' = sqlite_sequence]_vars

\* Update has just returned 0 on a store that holds records
C4_Witness ==
    /\ last_call.op = "update"
    /\ ret = [kind |-> "rowcount", v |-> 0]
    /\ patients # {}

\* the ReadAll sequence with the row of patient.id given patient's fields
C5_Replaced(all, patient) ==
    [i \in 1 .. Len(all) |->
        IF all[i].id = patient.id
        THEN Patient(all[i].id, patient.name, patient.age, patient.disease)
        ELSE all[i]]

\* C5: Update of a record whose id is in the store returns 1 and replaces
\* name, age and disease of exactly that row; its id, the number of rows,
\* their order in ReadAll and every other row stay as they were.
C5_UpdateReplacesOneRow ==
    [][\A p \in PatientArgs :
           (Update(p) /\ WhereId(patients, p.id) # {}) =>
               /\ ret' = [kind |-> "rowcount", v |-> 1]
               /\ Cardinality(patients') = Cardinality(patients)
               /\ SelectAll(patients') = C5_Replaced(SelectAll(patients), p)
               /\ sqlite_sequence' = sqlite_sequence]_vars

\* Update has just returned 1 on a store of at least two records
C5_Witness ==
    /\ last_call.op = "update"
    /\ ret = [kind |-> "rowcount", v |-> 1]
    /\ Cardinality(patients) >= 2

\* C6: a ReadById(id) right after the Create that returned id returns the
\* record with that id and the name, age and disease passed to Create; a
\* ReadById of an id the store has never assigned returns None.
C6_CreateThenReadById ==
    /\ [](( /\ last_call.op = "read_by_id"
            /\ last_call.id > sqlite_sequence ) => ret = None)
    /\ [][\A id \in IdArgs :
              ( /\ ReadById(id)
                /\ last_call.op = "create"
                /\ ret = [kind |-> "id", v |-> id] ) =>
                  ret' = [kind |-> "patient", v |-> last_call.p]]_vars

\* ReadById has just returned the record of the newest id, after a delete
\* had made ids and positions differ
C6_Witness ==
    /\ last_call.op = "read_by_id"
    /\ ret.kind = "patient"
    /\ ret.v.id = sqlite_sequence
    /\ Cardinality(patients) < sqlite_sequence

\* C7: no two stored records share an id; Create picks the id itself, fresh
\* and the same whatever id the passed record carries; a stored record's id
\* stays until the record is deleted, and only Create brings a new id.
C7_IdStep ==
    /\ \A p \in PatientArgs :
           Create(p) =>
               /\ ret'.kind = "id"
               /\ ret'.v \notin IdsOf(patients)
               /\ IdsOf(patients') = IdsOf(patients) \cup {ret'.v}
               /\ Create([p EXCEPT !.id = NoId])
    /\ (~ \E p \in PatientArgs : Create(p)) =>
           IdsOf(patients') \subseteq IdsOf(patients)
    /\ \A r \in patients :
           r.id \in IdsOf(patients') \/ Delete(r.id)

C7_IdsUniqueAndImmutable ==
    /\ [](\A r, q \in patients : r.id = q.id => r = q)
    /\ [][C7_IdStep]_vars

\* a Create made after Updates and a Delete, with two records stored
C7_Witness ==
    /\ ~only_creates
    /\ last_call.op = "create"
    /\ Cardinality(patients) >= 2
    /\ Cardinality(patients) < sqlite_sequence

(***************************************************************************)
(* Properties of the aggregation, checked under SpecAgg.                   *)
(***************************************************************************)
\* the positions of the records whose age int() accepts
ValidPositions(list) == { k \in 1 .. Len(list) : ParseInt(list[k].age).ok }

RECURSIVE SumOfAges(_, _)
SumOfAges(list, positions) ==
    IF positions = {} THEN 0
    ELSE LET k == CHOOSE x \in positions : TRUE
         IN  ParseInt(list[k].age).v + SumOfAges(list, positions \ {k})

\* the sum of the ages that parse
ValidSum(list) == SumOfAges(list, ValidPositions(list))

\* the number of ages that parse
ValidCount(list) == Cardinality(ValidPositions(list))

\* calculate_average_age has returned from a call with a batch size >= 1
Returned == pc = "done" /\ batch_size >= 1

\* C8: the result does not depend on batch_size: for every batch size >= 1
\* it is the result of the one batch that holds every record, which is what
\* any batch size above the number of records gives.
C8_ResultIndependentOfBatchSize ==
    Returned =>
        LET whole == calculate_batch_average_age(local_patients)
        IN  average_age = AverageOrNone(whole[1], whole[2])

\* a call has returned a number from several batches, the last one shorter
C8_Witness ==
    /\ Returned
    /\ average_age.kind = "float"
    /\ Len(futures) >= 2
    /\ Len(futures[Len(futures)].batch) < batch_size
    /\ Len(futures[Len(futures)].batch) >= 1

\* C9: ages that do not parse are left out and nothing is aborted: every
\* finished batch yields the sum and count of its own parseable ages, and
\* with at least one parseable age the result is (sum of the parseable
\* ages) / (number of parseable ages) over all records.
C9_UnparsableAgesExcluded ==
    batch_size >= 1 =>
        /\ \A f \in 1 .. Len(futures) :
               futures[f].done =>
                   futures[f].result = <<ValidSum(futures[f].batch),
                                         ValidCount(futures[f].batch)>>
        /\ (pc = "done" /\ ValidPositions(local_patients) # {}) =>
               /\ average_age.kind = "float"
               /\ average_age.num * ValidCount(local_patients)
                      = ValidSum(local_patients) * average_age.den

\* a call has returned a number although the first batch held an unparsable
\* age before a parseable one, and a later batch held a parseable one
C9_Witness ==
    /\ Returned
    /\ average_age.kind = "float"
    /\ Len(futures) >= 2
    /\ Len(futures[1].batch) >= 2
    /\ ~ParseInt(futures[1].batch[1].age).ok
    /\ ParseInt(futures[1].batch[2].age).ok
    /\ ValidCount(futures[2].batch) >= 1

\* C10: the result is None exactly when no age parses (an empty store
\* included); parseable ages that sum to zero give the number 0, not None.
C10_NoneOnlyWithoutValidAge ==
    Returned =>
        /\ average_age = None <=> ValidPositions(local_patients) = {}
        /\ (ValidPositions(local_patients) # {} /\ ValidSum(local_patients) = 0) =>
               /\ average_age.kind = "float"
               /\ average_age.num = 0

\* a call over several batches of unparsable ages only has returned None
C10_Witness ==
    /\ Returned
    /\ average_age = None
    /\ Len(futures) >= 2
    /\ joined = Len(futures)
    /\ ValidPositions(local_patients) = {}

\* C11: run on the same store, the pooled aggregation with any batch size
\* >= 1 and the single pass return the same value, None in the same cases.
C11_PooledEqualsSinglePass ==
    (Returned /\ average_ages # NoCall) => average_age = average_ages

\* both have returned a number for a store with an unparsable age, the
\* pooled one from several batches
C11_Witness ==
    /\ Returned
    /\ average_ages.kind = "float"
    /\ average_age = average_ages
    /\ Len(futures) >= 2
    /\ ValidCount(local_patients) < Len(local_patients)

RECURSIVE Concat(_, _)
\* the batches of the first k tasks, one after the other
Concat(tasks, k) ==
    IF k = 0 THEN <<>> ELSE Concat(tasks, k - 1) \o tasks[k].batch

\* C17: for a batch size b >= 1 the submitted batches are contiguous, in
\* order and cover every record once; each has b records except the last,
\* which has 1 to b; there is one task per batch, ceil(n/b) in all.
C17_BatchesPartitionTheRecords ==
    batch_size >= 1 =>
        /\ pc = "submit" =>
               /\ range_i < Len(local_patients)
               /\ Concat(futures, Len(futures)) = SubSeq(local_patients, 1, range_i)
        /\ pc \in {"join", "done"} =>
               /\ Concat(futures, Len(futures)) = local_patients
               /\ Len(futures) = (Len(local_patients) + batch_size - 1) \div batch_size
        /\ pc \in {"submit", "join", "done"} =>
               \A f \in 1 .. Len(futures) :
                   /\ Len(futures[f].batch) >= 1
                   /\ Len(futures[f].batch) <= batch_size
                   /\ (f < Len(futures) \/ pc = "submit") =>
                          Len(futures[f].batch) = batch_size

\* every task is submitted and the record count is a multiple of the batch
\* size: two full batches or more, none empty
C17_Witness ==
    /\ pc = "join"
    /\ batch_size >= 2
    /\ Len(futures) >= 2
    /\ Len(local_patients) = Len(futures) * batch_size

\* C18: whatever the order in which the workers finish, the totals the
\* caller ends with are the sum and count over all records: a worker step
\* touches its own task only, and the totals change in the result loop only.
C18_WorkerStep(f) ==
    /\ UNCHANGED <<total_age, total_count, joined, pc, local_patients>>
    /\ Len(futures') = Len(futures)
    /\ \A g \in 1 .. Len(futures) :
           /\ g # f => futures'[g] = futures[g]
           /\ futures'[g].batch = futures[g].batch
    /\ futures'[f].result = calculate_batch_average_age(futures[f].batch)

C18_ResultIndependentOfSchedule ==
    /\ []((batch_size >= 1 /\ pc \in {"join", "done"} /\ joined = Len(futures)) =>
              /\ total_age = ValidSum(local_patients)
              /\ total_count = ValidCount(local_patients))
    /\ [][\A f \in 1 .. Len(futures) : Worker(f) => C18_WorkerStep(f)]_vars
    /\ [][(total_age' # total_age \/ total_count' # total_count) =>
              (Join \/ \E b \in BatchSizes : AverageCall(b))]_vars

\* the caller waits for the first task while a later one has already finished
C18_Witness ==
    /\ pc = "join"
    /\ batch_size >= 1
    /\ joined = 0
    /\ Len(futures) >= 3
    /\ ~futures[1].done
    /\ futures[3].done
    /\ futures[3].result[2] >= 1

RECURSIVE SumResults(_, _, _)
\* the sum of component c of the results of the first k tasks
SumResults(tasks, k, c) ==
    IF k = 0 THEN 0 ELSE SumResults(tasks, k - 1, c) + tasks[k].result[c]

\* C19: the call returns only when every submitted task has finished and
\* been consumed; at every moment the totals hold the results of the tasks
\* consumed so far, each once.
C19_ReturnsAfterAllJoined ==
    /\ pc \in {"submit", "join", "done"} =>
           /\ joined <= Len(futures)
           /\ \A f \in 1 .. joined : futures[f].done
           /\ total_age = SumResults(futures, joined, 1)
           /\ total_count = SumResults(futures, joined, 2)
    /\ pc = "done" =>
           /\ joined = Len(futures)
           /\ \A f \in 1 .. Len(futures) : futures[f].done
           /\ average_age = AverageOrNone(SumResults(futures, Len(futures), 1),
                                          SumResults(futures, Len(futures), 2))

\* the call has returned a number after consuming three results
C19_Witness ==
    /\ pc = "done"
    /\ joined = 3
    /\ Len(futures) = 3
    /\ average_age.kind = "float"
    /\ \A f \in 1 .. 3 : futures[f].result[2] >= 1

\* C20: under fair scheduling of the caller and of the pool threads a call
\* that has entered the pool returns; and the step that returns is taken
\* only when every task has finished: no other path leads out of the call.
C20_ReturnsIffWorkersFinish ==
    /\ (pc \in {"submit", "join"}) ~> (pc = "done")
    /\ [][(pc # "done" /\ pc' = "done") =>
              \A f \in 1 .. Len(futures) : futures[f].done]_vars

\* a call with batch size 1 on several records has returned
C20_Witness ==
    /\ pc = "done"
    /\ batch_size = 1
    /\ Len(futures) >= 2
    /\ joined = Len(futures)

(***************************************************************************)
(* Properties of the store calls on concurrent connections, checked under  *)
(* SpecConn.                                                               *)
(***************************************************************************)
\* the step with which a create_patient call of caller c returns
C12_CreateReturns(c) ==
    \/ \E p \in ConnCreateArgs, f \in ExecuteFaults \cup {"none"} :
           /\ ConnCreate(c, p, f)
           /\ conn'[c].at = "idle"
    \/ \E f \in CommitFaults \cup {"none"} :
           /\ conn[c].at = "commit"
           /\ conn[c].op = "create"
           /\ ConnCommit(c, f)

\* C12: a Create that meets an I/O error or a NOT NULL violation returns
\* None and leaves the table and the id sequence as they were; a Create
\* that returns an id has added exactly one row, with that id and the
\* fields submitted, and nothing else.
C12_CreateIsAllOrNothing ==
    [][\A c \in Clients :
          C12_CreateReturns(c) =>
              /\ last_call'.fault # "none" => ret' = None
              /\ ret'.kind \in {"None", "id"}
              /\ ret' = None => UNCHANGED <<patients, sqlite_sequence>>
              /\ ret'.kind = "id" =>
                     /\ NotNull(conn[c].patient)
                     /\ ret'.v \notin IdsOf(patients)
                     /\ patients' = patients \cup
                            { Patient(ret'.v, conn[c].patient.name,
                                      conn[c].patient.age, conn[c].patient.disease) }
                     /\ Cardinality(patients') = Cardinality(patients) + 1]_vars

\* a Create whose commit failed has returned None on a table that has a row
C12_Witness ==
    /\ last_call.op = "create"
    /\ last_call.fault = "commit"
    /\ ret = None
    /\ Cardinality(patients) = 1
    /\ sqlite_sequence = 1

\* the step with which a call of caller c returns is the step the call makes
\* when it runs alone on the table as it is at that moment
C15_ReturnIsAtomic(c) ==
    /\ (conn[c].at = "commit" /\ conn'[c].at = "idle") =>
           IF last_call'.fault # "none"
           THEN /\ UNCHANGED <<patients, sqlite_sequence>>
                /\ ret' = ExceptValue(conn[c].op)
           ELSE CASE conn[c].op = "create" -> create_patient(conn[c].patient)
                  [] conn[c].op = "update" -> update_patient(conn[c].patient)
                  [] conn[c].op = "delete" -> delete_patient(conn[c].patient.id)
    /\ (conn[c].at = "idle" /\ conn'[c].at = "idle" /\ last_call'.by = c) =>
           IF last_call'.op = "read_all"
           THEN IF last_call'.fault = "none"
                THEN read_all_patients ELSE read_all_patients_except
           ELSE IF last_call'.op = "read_by_id"
           THEN IF last_call'.fault = "none"
                THEN read_patient_by_id(last_call'.id) ELSE read_patient_by_id_except
           ELSE /\ UNCHANGED <<patients, sqlite_sequence>>
                /\ ret' = ExceptValue(last_call'.op)
    /\ (conn[c].at = "idle" /\ conn'[c].at = "commit") =>
           UNCHANGED <<patients, sqlite_sequence, ret>>

\* C15: under every interleaving of the callers' store calls, each call
\* takes effect in one step, the one it returns with, and that step is the
\* step of the call run alone: the table and the returned values are those
\* of the calls run one after the other in the order they return.  Ids
\* stay unique and no committed row is lost to another caller's write.
C15_ConcurrentCallsAreSequential ==
    /\ [](\A r \in patients : \A q \in patients : r.id = q.id => r = q)
    /\ [](\A r \in patients : r.id <= sqlite_sequence)
    /\ [][\A c \in Clients : C15_ReturnIsAtomic(c)]_vars

\* caller a holds an uncommitted Create for id 2 while caller b has read the
\* table and got the one committed row
C15_Witness ==
    /\ conn["a"].at = "commit"
    /\ conn["a"].op = "create"
    /\ conn["a"].result.v = 2
    /\ last_call.by = "b"
    /\ last_call.op = "read_all"
    /\ last_call.fault = "none"
    /\ Len(ret.v) = 1

(***************************************************************************)
(* Properties of the /patients handlers, checked under SpecHttp.           *)
(***************************************************************************)
\* C13: every response tells absence, storage failure and empty success
\* apart: 500 when a store call of ReadAll, ReadById, Update or Delete met
\* a storage failure, 404 when the id was absent, 200 for an empty list.
C13_StatusTellsFailureFromAbsence ==
    response # NoCall =>
        /\ (response.failed # "none" /\ response.method # "POST /patients") =>
               response.status = 500
        /\ (response.failed = "none" /\ response.absent) => response.status = 404
        /\ (response.failed = "none" /\ response.method = "GET /patients") =>
               response.status = 200

\* the row with the id exists and the read of it failed: the answer is 404
C13_Witness ==
    /\ response # NoCall
    /\ response.method = "GET /patients/id"
    /\ response.failed = "read"
    /\ ~response.absent
    /\ response.status = 404

\* C14: a POST whose Create succeeded answers 201 with the created record,
\* a PUT whose Update changed a row answers 200 with the updated record,
\* whatever other requests do in between; POST answers 500 only when the
\* write failed.
C14_AnswersWithTheRecordWritten ==
    response # NoCall =>
        /\ (response.method = "POST /patients" /\ response.wrote # None) =>
               /\ response.status = 201
               /\ response.body = response.wrote
        /\ (response.method = "PUT /patients/id" /\ response.wrote # None) =>
               /\ response.status = 200
               /\ response.body = response.wrote
        /\ (response.method = "POST /patients" /\ response.status = 500) =>
               response.failed = "write"

\* no store call failed, the PUT changed a row, and the answer is 500:
\* another request deleted the row before the handler read it back
C14_Witness ==
    /\ response # NoCall
    /\ response.method = "PUT /patients/id"
    /\ response.wrote # None
    /\ response.failed = "none"
    /\ response.status = 500
    /\ response.wrote.v \notin patients

(***************************************************************************)
(* Properties of the snapshot lookup, checked under SpecCache.             *)
(***************************************************************************)
\* a text is a snapshot when it is the complete text of some entry list
C16_IsSnapshot(text) == \E l \in EntryLists : text = Dump(l)

C16_EntriesOf(text) == CHOOSE l \in EntryLists : text = Dump(l)

\* C16: a lookup that finds no file answers 404; one that reads a file
\* that is no complete snapshot answers 500; one that reads a snapshot
\* answers 200 with its entries.  No step of a lookup changes the file or
\* starts or advances a scrape.
C16_LookupReportsMissingCorruptOrEntries ==
    [][/\ get_scraped_data =>
              /\ ~scraped_file.exists =>
                     /\ scraped_response'.status = 404
                     /\ lookup' = "idle"
              /\ UNCHANGED <<scraped_file, scraper>>
       /\ get_scraped_data_load =>
              /\ (scraped_file.exists /\ ~C16_IsSnapshot(scraped_file.text)) =>
                     scraped_response'.status = 500
              /\ (scraped_file.exists /\ C16_IsSnapshot(scraped_file.text)) =>
                     /\ scraped_response'.status = 200
                     /\ scraped_response'.body.v = C16_EntriesOf(scraped_file.text)
              /\ UNCHANGED <<scraped_file, scraper>>]_vars

\* a lookup has answered 500 on a file a scrape has written in part
C16_Witness ==
    /\ scraped_response # NoCall
    /\ scraped_response.status = 500
    /\ lookup = "idle"
    /\ scraper.at = "write"
    /\ scraper.written = 2
    /\ Len(scraper.diseases_list) = 2

(***************************************************************************)
(* Further properties of the record store, checked under Spec.             *)
(***************************************************************************)
\* C21: Delete of an id in the store removes the row with that id and no
\* other: the other rows are the same records, ReadAll lists them in the
\* order it listed them before, and there is one row less.
C21_DeleteRemovesOneRow ==
    [][\A id \in IdArgs :
           (Delete(id) /\ WhereId(patients, id) # {}) =>
               /\ patients' \subseteq patients
               /\ patients \ patients' = WhereId(patients, id)
               /\ Cardinality(patients') = Cardinality(patients) - 1
               /\ SelectAll(patients') =
                      SelectSeq(SelectAll(patients), LAMBDA r : r.id # id)
               /\ sqlite_sequence' = sqlite_sequence]_vars

\* Delete has removed a row that had a row before it and a row after it
C21_Witness ==
    /\ last_call.op = "delete"
    /\ ret = [kind |-> "rowcount", v |-> 1]
    /\ \E r \in patients : r.id < last_call.id
    /\ \E r \in patients : r.id > last_call.id

\* C22: the id a Create returns is greater than every id a Create returned
\* before, deleted or not; so ReadById of an id whose row a Delete removed
\* returns None whatever Creates came after.
C22_IdsAreNeverReused ==
    /\ [][\A p \in PatientArgs :
              Create(p) => \A i \in ever_created : ret'.v > i]_vars
    /\ [][\A id \in IdArgs :
              (ReadById(id) /\ id \in ever_deleted) => ret' = None]_vars
    /\ [](\A id \in ever_deleted : WhereId(patients, id) = {})

\* the only row ever created was deleted, a Create came after it, and
\* ReadById of the deleted id has returned None
C22_Witness ==
    /\ ever_deleted = {1}
    /\ IdsOf(patients) = {2}
    /\ last_call = [op |-> "read_by_id", id |-> 1]
    /\ ret = None

(***************************************************************************)
(* Properties of the pooled aggregation for every batch size and with      *)
(* failing reads, checked under SpecPoolFault.                             *)
(***************************************************************************)
\* C24: for every batch size, zero and negative ones included, and whether
\* or not the read of the store fails, calculate_average_age returns None
\* only when no record in the store has an age that parses; otherwise it
\* returns the average or raises.
C24_NoneOnlyWhenStoreHasNoValidAge ==
    /\ (pc = "done" /\ average_age = None) => ValidCount(SelectAll(patients)) = 0
    /\ (pc = "done" /\ ValidCount(SelectAll(patients)) > 0) =>
           average_age = Quotient(ValidSum(SelectAll(patients)),
                                  ValidCount(SelectAll(patients)))

\* a call with a negative batch size has read a store with valid ages,
\* submitted no task and returned None
C24_Witness ==
    /\ pc = "done"
    /\ batch_size < 0
    /\ futures = <<>>
    /\ ValidCount(local_patients) >= 1
    /\ local_patients = SelectAll(patients)
    /\ average_age = None

(***************************************************************************)
(* The lookup while the snapshot is being refreshed, checked under         *)
(* SpecCache.                                                              *)
(***************************************************************************)
\* the last scrape to start found a complete snapshot in the file
C25_HadSnapshot ==
    /\ previous_snapshot.exists
    /\ C16_IsSnapshot(previous_snapshot.text)

\* C25: once a scrape has started on a file that held a complete snapshot,
\* a lookup finds the file and answers 200 with the entries of that
\* snapshot or of the one the scrape writes: never 404, never 500, never
\* the entries of a text written in part.
C25_LookupSeesOldOrNewSnapshot ==
    [][/\ (get_scraped_data /\ C25_HadSnapshot) => lookup' = "open"
       /\ (get_scraped_data_load /\ C25_HadSnapshot) =>
              /\ scraped_response'.status = 200
              /\ \/ scraped_response'.body.v = C16_EntriesOf(previous_snapshot.text)
                 \/ /\ scraper.at = "write"
                    /\ scraped_response'.body.v = scraper.diseases_list
                 \/ /\ scraper.at = "idle"
                    /\ scraped_response'.body.v = JsonLoad(scraped_file.text).v]_vars

\* a lookup has found the file and is about to read it while a scrape that
\* started on a complete snapshot has written the new text in part
C25_Witness ==
    /\ lookup = "open"
    /\ scraper.at = "write"
    /\ scraper.written >= 1
    /\ scraper.written < Len(Dump(scraper.diseases_list))
    /\ C25_HadSnapshot
    /\ Len(previous_snapshot.text) > 2

(***************************************************************************)
(* Properties of GET /patients/average-age, checked under SpecAvg.         *)
(***************************************************************************)
\* the three numbers of a 200 response describe the store contents S
C23_Describes(body, S) ==
    /\ ValidCount(S) > 0
    /\ body.average_age = Round2(Quotient(ValidSum(S), ValidCount(S)))
    /\ body.patient_count = ValidCount(S)
    /\ body.total_patients = Len(S)

\* C23: a 200 response gives the average (to two decimals), the number of
\* records with a parseable age and the number of records of one and the
\* same contents the store had while the request was served, whatever
\* other callers wrote meanwhile; a 404 response is given exactly when the
\* store has no parseable age.
C23_ResponseDescribesOneStoreState ==
    [][/\ \A f \in HttpFaults :
              get_average_age_count(f) =>
                  \E S \in avg_request.seen : C23_Describes(avg_response'.body, S)
       /\ \A f \in HttpFaults :
              get_average_age(f) =>
                  (avg_request'.at = "idle" <=> ValidCount(SelectAll(patients)) = 0)]_vars

\* no read failed, and the response gives an average of 45 over no record:
\* the records were deleted between the two reads of the handler
C23_Witness ==
    /\ avg_response # NoCall
    /\ avg_response.status = 200
    /\ ~avg_response.failed
    /\ avg_response.body.average_age = Quotient(45, 1)
    /\ avg_response.body.patient_count = 0
    /\ avg_response.body.total_patients = 0

====
